---- MODULE Spec2Model ----
(***************************************************************************)
(* Model of AuthenticationExtImpl                                          *)
(* (packages/plugin-ext/src/plugin/authentication-ext.ts): the provider    *)
(* registry (map, cached id list, info list), the registration handles,    *)
(* the remote provider-directory broadcasts and the getSession protocol.   *)
(***************************************************************************)
EXTENDS Integers, Sequences, FiniteSets, TLC

(***************************************************************************)
(* Bounds of the model.                                                    *)
(***************************************************************************)
\* successful registrations (handles handed out) in one run
MaxHandles == 2
\* length of the added / removed list of one broadcast
MaxDelta == 1
\* sessions the providers issue in one run (session ids 1..MaxSessions)
MaxSessions == 2
\* length of a scopes sequence in the scope-matching specification
MaxScopes == 2

(***************************************************************************)
(* Values.                                                                 *)
(***************************************************************************)
None == "none"

\* The provider objects an extension passes to registerAuthenticationProvider:
\* "a" and "b" are two different objects with the same id.
Instances == {"a", "b", "c"}

ProvId(i) == IF i = "c" THEN "p2" ELSE "p1"

ProvLabel(i) == CASE i = "a" -> "Alpha" [] i = "b" -> "Beta" [] OTHER -> "Gamma"

SupportsMultipleAccounts(i) == i # "a"

ProviderIds == {ProvId(i) : i \in Instances}

\* Error kinds, by the message the code throws.
DuplicateProviderError == "is already registered"
ProviderNotFoundError == "was not found"
ConsentDeniedError == "User did not consent to login."

\* A ProviderInformation object. obj is the identity of the object: 0 for the
\* literal registerAuthenticationProvider builds, RemoteObjs for the objects
\* received in broadcasts (odd ones describe "p1", even ones "p2"). Two
\* records that differ only in obj are equal records held in two different
\* objects: objects 1 and 3 are two separately received records for "p1".
LocalInfo(i) == [id |-> ProvId(i), label |-> ProvLabel(i), obj |-> 0]

RemoteLabel(id) == IF id = "p1" THEN "Alpha" ELSE "Gamma"

RemoteInfo(k) ==
    LET id == IF k % 2 = 1 THEN "p1" ELSE "p2"
    IN  [id |-> id, label |-> RemoteLabel(id), obj |-> k]

RemoteObjs == {1, 2, 3}

RemoteInfos == {RemoteInfo(k) : k \in RemoteObjs}

\* An AuthenticationSession: id, account label and scopes (strings are
\* sequences of UTF-16 code units).
NoSession == [id |-> 0, account |-> "", scopes |-> <<>>]

\* the account of the session with a given id: the providers issue sessions
\* for "alice" and "bob" in turn (the code never branches on the account)
AccountOf(id) == IF id % 2 = 1 THEN "alice" ELSE "bob"

SessionIds == 1..MaxSessions

\* A call on the Remote Proxy (AuthenticationMain), a call on a provider, or
\* the reply to one; unused fields keep their defaults.
Msg0 ==
    [call |-> "", providerId |-> "", label |-> "", flag |-> FALSE, event |-> "",
     account |-> "", extensionId |-> <<>>, extensionName |-> "", sessions |-> <<>>,
     scopes |-> <<>>, sessionId |-> 0, provider |-> None]

Ret0 == [op |-> "", inst |-> None, h |-> 0, res |-> ""]

\* The outcome of a getSession call.
Result0 == [kind |-> "pending", session |-> NoSession, error |-> ""]

Returned(s) == [kind |-> "session", session |-> s, error |-> ""]

ReturnedUndefined == [kind |-> "undefined", session |-> NoSession, error |-> ""]

Thrown(e) == [kind |-> "error", session |-> NoSession, error |-> e]

\* The frame of a getSession call: its parameters and locals.
Call0 ==
    [pc |-> "idle", providerId |-> "", provider |-> None, extensionName |-> "",
     extensionId |-> <<>>, scopes |-> <<>>, orderedScopes |-> <<>>,
     options |-> [createIfNone |-> FALSE, clearSessionPreference |-> FALSE],
     sessions |-> <<>>, session |-> NoSession, trace |-> <<>>, result |-> Result0]

\* getSession calls that can be in flight
CallIds == {1}

\* getSession calls that can be in flight in the specification of overlapping
\* calls
ConcurrentCallIds == {1, 2}

VARIABLES
    authenticationProviders,  \* id -> registered provider object, or None
    providerIds,              \* _providerIds
    providers,                \* _providers
    handles,                  \* the Disposables handed out, in order
    listeners,                \* handles whose onDidChangeSessions listener is subscribed
    sent,                     \* proxy calls issued by the last step, in order
    ret,                      \* the last step: operation, inputs, outcome
    sessions,                 \* provider object -> the sessions it holds
    nextSessionId,            \* the id of the next session a provider issues
    calls                     \* the getSession calls: frame and position

vars == <<authenticationProviders, providerIds, providers, handles, listeners, sent, ret,
          sessions, nextSessionId, calls>>

registry == <<authenticationProviders, providerIds, providers>>

broker == <<sessions, nextSessionId, calls>>

(***************************************************************************)
(* Array helpers, as JavaScript computes them (0-based results).           *)
(***************************************************************************)
\* Array.prototype.indexOf(x): the first position holding x itself, -1 if none.
IndexOf(s, x) ==
    IF \E k \in 1..Len(s) : s[k] = x
    THEN (CHOOSE k \in 1..Len(s) : s[k] = x /\ \A j \in 1..(k - 1) : s[j] # x) - 1
    ELSE -1

\* Array.prototype.findIndex(p => p.id === id): the first entry with that id.
FindIndexById(s, id) ==
    IF \E k \in 1..Len(s) : s[k].id = id
    THEN (CHOOSE k \in 1..Len(s) : s[k].id = id /\ \A j \in 1..(k - 1) : s[j].id # id) - 1
    ELSE -1

\* Array.prototype.splice(start) with one argument: removes every element
\* from start to the end of the array.
SpliceFrom(s, start) == SubSeq(s, 1, start)

IdsOf(s) == {s[k].id : k \in 1..Len(s)}

Range(s) == {s[k] : k \in 1..Len(s)}

CountId(s, id) == Cardinality({k \in 1..Len(s) : s[k].id = id})

Init ==
    /\ authenticationProviders = [id \in ProviderIds |-> None]
    /\ providerIds = <<>>
    /\ providers = <<>>
    /\ handles = <<>>
    /\ listeners = {}
    /\ sent = <<>>
    /\ ret = Ret0
    /\ sessions = [i \in Instances |-> <<>>]
    /\ nextSessionId = 1
    /\ calls = [c \in ConcurrentCallIds |-> Call0]

(***************************************************************************)
(* registerAuthenticationProvider(provider)                                *)
(***************************************************************************)
RegisterOverwrite(i) ==
    LET id == ProvId(i) IN
    /\ UNCHANGED broker
    /\ Len(handles) < MaxHandles
    /\ authenticationProviders' = [authenticationProviders EXCEPT ![id] = i]
    /\ providerIds' = IF IndexOf(providerIds, id) = -1
                      THEN Append(providerIds, id) ELSE providerIds
    /\ providers' = IF ~\E k \in 1..Len(providers) : providers[k].id = id
                    THEN Append(providers, LocalInfo(i)) ELSE providers
    /\ handles' = Append(handles, [provider |-> i, disposable |-> TRUE])
    /\ listeners' = listeners \cup {Len(handles) + 1}
    /\ sent' = << [Msg0 EXCEPT !.call = "$registerAuthenticationProvider",
                               !.providerId = id, !.label = ProvLabel(i),
                               !.flag = SupportsMultipleAccounts(i)] >>
    /\ ret' = [Ret0 EXCEPT !.op = "registerAuthenticationProvider", !.inst = i,
                           !.h = Len(handles) + 1, !.res = "ok"]

RegisterAuthenticationProvider(i) ==
    LET id == ProvId(i) IN
    IF authenticationProviders[id] # None
    THEN /\ UNCHANGED broker
         /\ ret' = [Ret0 EXCEPT !.op = "registerAuthenticationProvider", !.inst = i,
                                !.res = DuplicateProviderError]
         /\ sent' = <<>>
         /\ UNCHANGED <<authenticationProviders, providerIds, providers, handles, listeners>>
    ELSE /\ UNCHANGED broker
         /\ Len(handles) < MaxHandles
         /\ authenticationProviders' = [authenticationProviders EXCEPT ![id] = i]
         /\ providerIds' = IF IndexOf(providerIds, id) = -1
                           THEN Append(providerIds, id) ELSE providerIds
         /\ providers' = IF ~\E k \in 1..Len(providers) : providers[k].id = id
                         THEN Append(providers, LocalInfo(i)) ELSE providers
         /\ handles' = Append(handles, [provider |-> i, disposable |-> TRUE])
         /\ listeners' = listeners \cup {Len(handles) + 1}
         /\ sent' = << [Msg0 EXCEPT !.call = "$registerAuthenticationProvider",
                                    !.providerId = id, !.label = ProvLabel(i),
                                    !.flag = SupportsMultipleAccounts(i)] >>
         /\ ret' = [Ret0 EXCEPT !.op = "registerAuthenticationProvider", !.inst = i,
                                !.h = Len(handles) + 1, !.res = "ok"]

(***************************************************************************)
(* The disposer returned by registerAuthenticationProvider.                *)
(***************************************************************************)
\* the mutant: the disposer leaves the listener subscribed
DisposerBodyKeepsListener(h) ==
    LET id == ProvId(handles[h].provider)
        index == IndexOf(providerIds, id)
        i == FindIndexById(providers, id)
    IN  /\ listeners' = listeners
        /\ authenticationProviders' = [authenticationProviders EXCEPT ![id] = None]
        /\ providerIds' = IF index > -1 THEN SpliceFrom(providerIds, index) ELSE providerIds
        /\ providers' = IF i > -1 THEN SpliceFrom(providers, i) ELSE providers
        /\ sent' = << [Msg0 EXCEPT !.call = "$unregisterAuthenticationProvider",
                                   !.providerId = id] >>

\* The function passed to new Disposable(...): the body of the handle.
DisposerBody(h) ==
    LET id == ProvId(handles[h].provider)
        index == IndexOf(providerIds, id)
        i == FindIndexById(providers, id)
    IN  /\ listeners' = listeners \ {h}
        /\ authenticationProviders' = [authenticationProviders EXCEPT ![id] = None]
        /\ providerIds' = IF index > -1 THEN SpliceFrom(providerIds, index) ELSE providerIds
        /\ providers' = IF i > -1 THEN SpliceFrom(providers, i) ELSE providers
        /\ sent' = << [Msg0 EXCEPT !.call = "$unregisterAuthenticationProvider",
                                   !.providerId = id] >>

\* Disposable.dispose() (types-impl): runs the function once and forgets it.
DisposableDispose(h) ==
    IF handles[h].disposable
    THEN /\ DisposerBody(h)
         /\ handles' = [handles EXCEPT ![h].disposable = FALSE]
    ELSE /\ sent' = <<>>
         /\ UNCHANGED <<authenticationProviders, providerIds, providers, handles, listeners>>

\* the mutant: the handle is the bare function, not wrapped in a Disposable
DisposeUnwrapped(h) ==
    /\ h \in 1..Len(handles)
    /\ DisposerBody(h)
    /\ handles' = [handles EXCEPT ![h].disposable = FALSE]
    /\ ret' = [Ret0 EXCEPT !.op = "dispose", !.inst = handles[h].provider, !.h = h, !.res = "ok"]
    /\ UNCHANGED broker

\* An extension invokes dispose() on handle h.
Dispose(h) ==
    /\ h \in 1..Len(handles)
    /\ DisposableDispose(h)
    /\ ret' = [Ret0 EXCEPT !.op = "dispose", !.inst = handles[h].provider, !.h = h, !.res = "ok"]
    /\ UNCHANGED broker

(***************************************************************************)
(* $onDidChangeAuthenticationProviders(added, removed)                     *)
(***************************************************************************)
\* added.forEach: push the object unless this very object is in the list.
RECURSIVE ApplyAdded(_, _)
ApplyAdded(list, added) ==
    IF added = <<>> THEN list
    ELSE LET o == Head(added)
             next == IF IndexOf(list, o) = -1 THEN Append(list, o) ELSE list
         IN  ApplyAdded(next, Tail(added))

\* removed.forEach: findIndex by id, then splice(index).
RECURSIVE ApplyRemoved(_, _)
ApplyRemoved(list, removed) ==
    IF removed = <<>> THEN list
    ELSE LET p == Head(removed)
             index == FindIndexById(list, p.id)
             next == IF index > -1 THEN SpliceFrom(list, index) ELSE list
         IN  ApplyRemoved(next, Tail(removed))

\* the added lists of a broadcast
Deltas == UNION {[1..n -> RemoteInfos] : n \in 0..MaxDelta}

\* the removed lists of a broadcast: the handler reads only the id of a
\* removed entry, so one object per id stands for them all
RemovedDeltas == UNION {[1..n -> {RemoteInfo(1), RemoteInfo(2)}] : n \in 0..MaxDelta}

OnDidChangeAuthenticationProviders(added, removed) ==
    /\ providers' = ApplyRemoved(ApplyAdded(providers, added), removed)
    /\ sent' = <<>>
    /\ ret' = [Ret0 EXCEPT !.op = "$onDidChangeAuthenticationProviders", !.res = "fired"]
    /\ UNCHANGED <<authenticationProviders, providerIds, handles, listeners>>
    /\ UNCHANGED broker

(***************************************************************************)
(* A provider emits a session-change event.                                *)
(***************************************************************************)
SessionEvents == {"added", "removed"}

\* the listeners of provider object i, in subscription order
RECURSIVE ListenersOf(_, _)
ListenersOf(i, k) ==
    IF k > Len(handles) THEN <<>>
    ELSE (IF k \in listeners /\ handles[k].provider = i THEN <<k>> ELSE <<>>)
         \o ListenersOf(i, k + 1)

ProviderEmits(i, e) ==
    LET ls == ListenersOf(i, 1) IN
    /\ sent' = [k \in 1..Len(ls) |->
                   [Msg0 EXCEPT !.call = "$updateSessions", !.providerId = ProvId(i),
                                !.event = e]]
    /\ ret' = [Ret0 EXCEPT !.op = "emit", !.inst = i, !.res = e]
    /\ UNCHANGED <<authenticationProviders, providerIds, providers, handles, listeners>>
    /\ UNCHANGED broker

(***************************************************************************)
(* Strings: sequences of UTF-16 code units.                                *)
(***************************************************************************)
Space == 32

Str_a == <<97>>

Str_b == <<98>>

\* "A"
Str_A == <<65>>

\* "a a": a scope string that holds the delimiter of join(' ')
Str_a_a == <<97, Space, 97>>

\* code-unit order, the order of Array.prototype.sort() without a comparator
RECURSIVE StrLess(_, _)
StrLess(x, y) ==
    IF y = <<>> THEN FALSE
    ELSE IF x = <<>> THEN TRUE
    ELSE IF Head(x) # Head(y) THEN Head(x) < Head(y)
    ELSE StrLess(Tail(x), Tail(y))

RECURSIVE SortInsert(_, _)
SortInsert(x, s) ==
    IF s = <<>> THEN <<x>>
    ELSE IF StrLess(x, Head(s)) THEN <<x>> \o s
    ELSE <<Head(s)>> \o SortInsert(x, Tail(s))

\* Array.prototype.sort()
RECURSIVE JsSort(_)
JsSort(s) == IF s = <<>> THEN <<>> ELSE SortInsert(Head(s), JsSort(Tail(s)))

\* Array.prototype.join(' ')
RECURSIVE Join(_)
Join(s) ==
    IF s = <<>> THEN <<>>
    ELSE IF Len(s) = 1 THEN s[1]
    ELSE s[1] \o <<Space>> \o Join(Tail(s))

\* String.prototype.toLowerCase(), on the ASCII letters
ToLowerCase(s) == [k \in 1..Len(s) |-> IF s[k] \in 65..90 THEN s[k] + 32 ELSE s[k]]

\* s.scopes.slice().sort().join(' ')
ScopeKey(scopes) == Join(JsSort(scopes))

(***************************************************************************)
(* Inputs of getSession.                                                   *)
(***************************************************************************)
\* requestingExtension.model: id "Pub.X", no display name
Extensions == { [id |-> <<80, 117, 98, 46, 88>>, name |-> "x", displayName |-> ""] }

\* the provider objects the session broker specification registers: a
\* single-account and a multi-account provider with the same id
BrokerInstances == {"a", "b"}

ScopeInputs == { <<Str_b, Str_a>>, <<Str_a>> }

GetSessionOptions == [createIfNone : BOOLEAN, clearSessionPreference : BOOLEAN]

\* the scope strings and the scopes sequences (of a request, of a session) of
\* the scope-matching specification
ScopeStrings == {Str_a, Str_b, Str_A, Str_a_a}

MatchScopes == UNION {[1..n -> ScopeStrings] : n \in 1..MaxScopes}

(***************************************************************************)
(* The providers: login issues a new session for the scopes it is given,   *)
(* logout drops the session with the given id.                             *)
(***************************************************************************)
NewSession(scopes) ==
    [id |-> nextSessionId, account |-> AccountOf(nextSessionId), scopes |-> scopes]

ProviderLogin(i, scopes) ==
    /\ nextSessionId <= MaxSessions
    /\ sessions' = [sessions EXCEPT ![i] = Append(@, NewSession(scopes))]
    /\ nextSessionId' = nextSessionId + 1

ProviderLogout(i, sessionId) ==
    /\ sessions' = [sessions EXCEPT ![i] = SelectSeq(@, LAMBDA x : x.id # sessionId)]
    /\ UNCHANGED nextSessionId

(***************************************************************************)
(* getSession(requestingExtension, providerId, scopes, options)            *)
(***************************************************************************)
registration == <<authenticationProviders, providerIds, providers, handles, listeners>>

\* A step of call c: the new frame, the proxy calls it issues.
CallStep(c, frame, msgs) ==
    /\ calls' = [calls EXCEPT ![c] = frame]
    /\ sent' = msgs
    /\ ret' = [Ret0 EXCEPT !.op = "getSession", !.h = c]
    /\ UNCHANGED registration

\* the mutant: the key is computed from a sorted copy, scopes.slice().sort()
GetSessionSortsCopy(c, ext, providerId, scopes, options) ==
    LET provider == authenticationProviders[providerId]
        extensionName == IF ext.displayName # "" THEN ext.displayName ELSE ext.name
        extensionId == ToLowerCase(ext.id)
        sorted == JsSort(scopes)
        frame == [Call0 EXCEPT !.providerId = providerId, !.provider = provider,
                               !.extensionName = extensionName,
                               !.extensionId = extensionId, !.options = options]
    IN  /\ calls[c].pc \in {"idle", "done"}
        /\ UNCHANGED <<sessions, nextSessionId>>
        /\ IF provider = None
           THEN CallStep(c, [frame EXCEPT !.pc = "done", !.scopes = scopes,
                                          !.result = Thrown(ProviderNotFoundError)],
                         <<>>)
           ELSE CallStep(c, [frame EXCEPT
                               !.pc = "getSessions", !.scopes = scopes,
                               !.orderedScopes = Join(sorted),
                               !.trace = << [Msg0 EXCEPT !.call = "provider.getSessions",
                                                         !.provider = provider] >>],
                         <<>>)

\* The call up to its first await (lines 68-77): look the provider up, sort
\* the caller's scopes in place, ask the provider for its sessions.
GetSession(c, ext, providerId, scopes, options) ==
    LET provider == authenticationProviders[providerId]
        extensionName == IF ext.displayName # "" THEN ext.displayName ELSE ext.name
        extensionId == ToLowerCase(ext.id)
        sorted == JsSort(scopes)
        frame == [Call0 EXCEPT !.providerId = providerId, !.provider = provider,
                               !.extensionName = extensionName,
                               !.extensionId = extensionId, !.options = options]
    IN  /\ calls[c].pc \in {"idle", "done"}
        /\ UNCHANGED <<sessions, nextSessionId>>
        /\ IF provider = None
           THEN CallStep(c, [frame EXCEPT !.pc = "done", !.scopes = scopes,
                                          !.result = Thrown(ProviderNotFoundError)],
                         <<>>)
           ELSE CallStep(c, [frame EXCEPT
                               !.pc = "getSessions", !.scopes = sorted,
                               !.orderedScopes = Join(sorted),
                               !.trace = << [Msg0 EXCEPT !.call = "provider.getSessions",
                                                         !.provider = provider] >>],
                         <<>>)

\* (await provider.getSessions()).filter(...) (line 77)
Candidates(call) ==
    SelectSeq(sessions[call.provider], LAMBDA x : ScopeKey(x.scopes) = call.orderedScopes)

ProxyCall(call) ==
    [Msg0 EXCEPT !.providerId = call.providerId, !.extensionId = call.extensionId,
                 !.extensionName = call.extensionName]

\* the mutant: the prompt names the account of the last matching session
DiscloseCallLast(call, found) ==
    IF ~SupportsMultipleAccounts(call.provider)
    THEN [ProxyCall(call) EXCEPT !.call = "$getSessionsPrompt",
                                 !.account = found[Len(found)].account,
                                 !.label = ProvLabel(call.provider)]
    ELSE [ProxyCall(call) EXCEPT !.call = "$selectSession",
                                 !.label = ProvLabel(call.provider),
                                 !.sessions = found, !.scopes = call.scopes,
                                 !.flag = call.options.clearSessionPreference]

\* sessions.length > 0 (lines 80-91): the proxy call the call awaits next
DiscloseCall(call, found) ==
    IF ~SupportsMultipleAccounts(call.provider)
    THEN [ProxyCall(call) EXCEPT !.call = "$getSessionsPrompt",
                                 !.account = found[1].account,
                                 !.label = ProvLabel(call.provider)]
    ELSE [ProxyCall(call) EXCEPT !.call = "$selectSession",
                                 !.label = ProvLabel(call.provider),
                                 !.sessions = found, !.scopes = call.scopes,
                                 !.flag = call.options.clearSessionPreference]

\* the mutant: always offers to create a session
CreateCallAlways(call) ==
    [Msg0 EXCEPT !.call = "$loginPrompt", !.label = ProvLabel(call.provider),
                 !.extensionName = call.extensionName]

\* no matching session (lines 94-104): the proxy call the call awaits next
CreateCall(call) ==
    IF call.options.createIfNone
    THEN [Msg0 EXCEPT !.call = "$loginPrompt", !.label = ProvLabel(call.provider),
                      !.extensionName = call.extensionName]
    ELSE [ProxyCall(call) EXCEPT !.call = "$requestNewSession", !.scopes = call.scopes]

\* the mutant: a single-flight guard. A call that finds an identical call
\* (same provider, scope key and extension) already creating a session does
\* not start a second login
GetSessionsResolvedSingleFlight(c) ==
    LET call == calls[c]
        found == Candidates(call)
        msg == IF Len(found) > 0 THEN DiscloseCall(call, found) ELSE CreateCall(call)
        creating == \E d \in DOMAIN calls \ {c} :
                       /\ calls[d].pc \in {"$loginPrompt", "provider.login"}
                       /\ calls[d].provider = call.provider
                       /\ calls[d].orderedScopes = call.orderedScopes
                       /\ calls[d].extensionId = call.extensionId
    IN  /\ call.pc = "getSessions"
        /\ UNCHANGED <<sessions, nextSessionId>>
        /\ IF Len(found) = 0 /\ call.options.createIfNone /\ creating
           THEN CallStep(c, [call EXCEPT !.pc = "done", !.sessions = found,
                                         !.result = ReturnedUndefined],
                         <<>>)
           ELSE CallStep(c, [call EXCEPT !.pc = msg.call, !.sessions = found,
                                         !.trace = Append(@, msg)],
                         <<msg>>)

\* provider.getSessions() resolves: filter (line 77), then the call runs to
\* its next await (lines 79-104).
GetSessionsResolved(c) ==
    LET call == calls[c]
        found == Candidates(call)
        msg == IF Len(found) > 0 THEN DiscloseCall(call, found) ELSE CreateCall(call)
    IN  /\ call.pc = "getSessions"
        /\ UNCHANGED <<sessions, nextSessionId>>
        /\ CallStep(c, [call EXCEPT !.pc = msg.call, !.sessions = found,
                                    !.trace = Append(@, msg)],
                    <<msg>>)

\* the mutant: the session is returned whatever the reply
GetSessionsPromptIgnored(c, allowed) ==
    LET call == calls[c]
        reply == [Msg0 EXCEPT !.call = "reply $getSessionsPrompt", !.flag = allowed]
    IN  /\ call.pc = "$getSessionsPrompt"
        /\ UNCHANGED <<sessions, nextSessionId>>
        /\ CallStep(c, [call EXCEPT !.pc = "done", !.trace = Append(@, reply),
                                    !.result = Returned(call.sessions[1])],
                    <<>>)

\* $getSessionsPrompt replies (lines 82-87).
GetSessionsPromptReply(c, allowed) ==
    LET call == calls[c]
        reply == [Msg0 EXCEPT !.call = "reply $getSessionsPrompt", !.flag = allowed]
    IN  /\ call.pc = "$getSessionsPrompt"
        /\ UNCHANGED <<sessions, nextSessionId>>
        /\ CallStep(c, [call EXCEPT
                          !.pc = "done", !.trace = Append(@, reply),
                          !.result = IF allowed THEN Returned(call.sessions[1])
                                     ELSE Thrown(ConsentDeniedError)],
                    <<>>)

\* the mutant: the first candidate, whatever was selected
FindFirst(list, id) == Returned(list[1])

\* sessions.find(session => session.id === selected.id)
FindById(list, id) ==
    IF \E k \in 1..Len(list) : list[k].id = id
    THEN Returned(list[CHOOSE k \in 1..Len(list) :
                          list[k].id = id /\ \A j \in 1..(k - 1) : list[j].id # id])
    ELSE ReturnedUndefined

\* $selectSession replies with a session (lines 91-92).
SelectSessionReply(c, selectedId) ==
    LET call == calls[c]
        reply == [Msg0 EXCEPT !.call = "reply $selectSession", !.sessionId = selectedId]
    IN  /\ call.pc = "$selectSession"
        /\ UNCHANGED <<sessions, nextSessionId>>
        /\ CallStep(c, [call EXCEPT !.pc = "done", !.trace = Append(@, reply),
                                    !.result = FindById(call.sessions, selectedId)],
                    <<>>)

\* the mutant: login without looking at the reply
LoginPromptIgnored(c, isAllowed) ==
    LET call == calls[c]
        reply == [Msg0 EXCEPT !.call = "reply $loginPrompt", !.flag = isAllowed]
        login == [Msg0 EXCEPT !.call = "provider.login", !.provider = call.provider,
                              !.scopes = call.scopes]
    IN  /\ call.pc = "$loginPrompt"
        /\ ProviderLogin(call.provider, call.scopes)
        /\ CallStep(c, [call EXCEPT !.pc = "provider.login",
                                    !.session = NewSession(call.scopes),
                                    !.trace = @ \o <<reply, login>>],
                    <<>>)

\* the mutant: the provider is looked up again after the prompt
LoginPromptReplyRechecks(c, isAllowed) ==
    LET call == calls[c]
        reply == [Msg0 EXCEPT !.call = "reply $loginPrompt", !.flag = isAllowed]
        login == [Msg0 EXCEPT !.call = "provider.login", !.provider = call.provider,
                              !.scopes = call.scopes]
    IN  /\ call.pc = "$loginPrompt"
        /\ IF authenticationProviders[call.providerId] # call.provider
           THEN /\ UNCHANGED <<sessions, nextSessionId>>
                /\ CallStep(c, [call EXCEPT !.pc = "done", !.trace = Append(@, reply),
                                            !.result = Thrown(ProviderNotFoundError)],
                            <<>>)
           ELSE IF ~isAllowed
           THEN /\ UNCHANGED <<sessions, nextSessionId>>
                /\ CallStep(c, [call EXCEPT !.pc = "done", !.trace = Append(@, reply),
                                            !.result = Thrown(ConsentDeniedError)],
                            <<>>)
           ELSE /\ ProviderLogin(call.provider, call.scopes)
                /\ CallStep(c, [call EXCEPT !.pc = "provider.login",
                                            !.session = NewSession(call.scopes),
                                            !.trace = @ \o <<reply, login>>],
                            <<>>)

\* $loginPrompt replies (lines 95-100): throw, or call provider.login, which
\* issues a session.
LoginPromptReply(c, isAllowed) ==
    LET call == calls[c]
        reply == [Msg0 EXCEPT !.call = "reply $loginPrompt", !.flag = isAllowed]
        login == [Msg0 EXCEPT !.call = "provider.login", !.provider = call.provider,
                              !.scopes = call.scopes]
    IN  /\ call.pc = "$loginPrompt"
        /\ IF ~isAllowed
           THEN /\ UNCHANGED <<sessions, nextSessionId>>
                /\ CallStep(c, [call EXCEPT !.pc = "done", !.trace = Append(@, reply),
                                            !.result = Thrown(ConsentDeniedError)],
                            <<>>)
           ELSE /\ ProviderLogin(call.provider, call.scopes)
                /\ CallStep(c, [call EXCEPT !.pc = "provider.login",
                                            !.session = NewSession(call.scopes),
                                            !.trace = @ \o <<reply, login>>],
                            <<>>)

\* the mutant: the new session is returned without persisting the preference
LoginResolvedNoPreference(c) ==
    LET call == calls[c]
    IN  /\ call.pc = "provider.login"
        /\ UNCHANGED <<sessions, nextSessionId>>
        /\ CallStep(c, [call EXCEPT !.pc = "done", !.result = Returned(call.session)], <<>>)

\* provider.login resolves (line 101).
LoginResolved(c) ==
    LET call == calls[c]
        msg == [Msg0 EXCEPT !.call = "$setTrustedExtensionAndAccountPreference",
                            !.providerId = call.providerId,
                            !.account = call.session.account,
                            !.extensionId = call.extensionId,
                            !.extensionName = call.extensionName,
                            !.sessionId = call.session.id]
    IN  /\ call.pc = "provider.login"
        /\ UNCHANGED <<sessions, nextSessionId>>
        /\ CallStep(c, [call EXCEPT !.pc = msg.call, !.trace = Append(@, msg)], <<msg>>)

\* $setTrustedExtensionAndAccountPreference replies (line 102).
SetTrustedReply(c) ==
    LET call == calls[c]
        reply == [Msg0 EXCEPT !.call = "reply $setTrustedExtensionAndAccountPreference"]
    IN  /\ call.pc = "$setTrustedExtensionAndAccountPreference"
        /\ UNCHANGED <<sessions, nextSessionId>>
        /\ CallStep(c, [call EXCEPT !.pc = "done", !.trace = Append(@, reply),
                                    !.result = Returned(call.session)],
                    <<>>)

\* $requestNewSession replies (line 105).
RequestNewSessionReply(c) ==
    LET call == calls[c]
        reply == [Msg0 EXCEPT !.call = "reply $requestNewSession"]
    IN  /\ call.pc = "$requestNewSession"
        /\ UNCHANGED <<sessions, nextSessionId>>
        /\ CallStep(c, [call EXCEPT !.pc = "done", !.trace = Append(@, reply),
                                    !.result = ReturnedUndefined],
                    <<>>)

(***************************************************************************)
(* logout and the entry points the Remote Proxy calls.                     *)
(***************************************************************************)
\* the mutant: logout fails for an unknown provider, as $logout does
LogoutStrict(providerId, sessionId) ==
    LET provider == authenticationProviders[providerId] IN
    /\ UNCHANGED <<registration, calls>>
    /\ sent' = <<>>
    /\ IF provider = None
       THEN /\ ret' = [Ret0 EXCEPT !.op = "logout", !.res = ProviderNotFoundError]
            /\ UNCHANGED <<sessions, nextSessionId>>
       ELSE /\ ProviderLogout(provider, sessionId)
            /\ ret' = [Ret0 EXCEPT !.op = "logout", !.inst = provider, !.res = "ok"]

Logout(providerId, sessionId) ==
    LET provider == authenticationProviders[providerId] IN
    /\ UNCHANGED <<registration, calls>>
    /\ IF provider = None
       THEN /\ sent' = << [Msg0 EXCEPT !.call = "$logout", !.providerId = providerId,
                                       !.sessionId = sessionId] >>
            /\ ret' = [Ret0 EXCEPT !.op = "logout", !.res = "forwarded"]
            /\ UNCHANGED <<sessions, nextSessionId>>
       ELSE /\ ProviderLogout(provider, sessionId)
            /\ sent' = <<>>
            /\ ret' = [Ret0 EXCEPT !.op = "logout", !.inst = provider, !.res = "ok"]

Dollar_login(providerId, scopes) ==
    LET authProvider == authenticationProviders[providerId] IN
    /\ UNCHANGED <<registration, calls>>
    /\ sent' = <<>>
    /\ IF authProvider # None
       THEN /\ ProviderLogin(authProvider, scopes)
            /\ ret' = [Ret0 EXCEPT !.op = "$login", !.inst = authProvider, !.res = "ok"]
       ELSE /\ ret' = [Ret0 EXCEPT !.op = "$login", !.res = ProviderNotFoundError]
            /\ UNCHANGED <<sessions, nextSessionId>>

\* the mutant: an unknown provider is taken to live elsewhere, as logout does
Dollar_logoutForwarding(providerId, sessionId) ==
    LET authProvider == authenticationProviders[providerId] IN
    /\ UNCHANGED <<registration, calls>>
    /\ IF authProvider # None
       THEN /\ ProviderLogout(authProvider, sessionId)
            /\ sent' = <<>>
            /\ ret' = [Ret0 EXCEPT !.op = "$logout", !.inst = authProvider, !.res = "ok"]
       ELSE /\ sent' = << [Msg0 EXCEPT !.call = "$logout", !.providerId = providerId,
                                       !.sessionId = sessionId] >>
            /\ ret' = [Ret0 EXCEPT !.op = "$logout", !.res = "forwarded"]
            /\ UNCHANGED <<sessions, nextSessionId>>

Dollar_logout(providerId, sessionId) ==
    LET authProvider == authenticationProviders[providerId] IN
    /\ UNCHANGED <<registration, calls>>
    /\ sent' = <<>>
    /\ IF authProvider # None
       THEN /\ ProviderLogout(authProvider, sessionId)
            /\ ret' = [Ret0 EXCEPT !.op = "$logout", !.inst = authProvider, !.res = "ok"]
       ELSE /\ ret' = [Ret0 EXCEPT !.op = "$logout", !.res = ProviderNotFoundError]
            /\ UNCHANGED <<sessions, nextSessionId>>

Dollar_getSessions(providerId) ==
    LET authProvider == authenticationProviders[providerId] IN
    /\ UNCHANGED <<registration, calls, sessions, nextSessionId>>
    /\ sent' = <<>>
    /\ ret' = IF authProvider # None
              THEN [Ret0 EXCEPT !.op = "$getSessions", !.inst = authProvider, !.res = "ok"]
              ELSE [Ret0 EXCEPT !.op = "$getSessions", !.res = ProviderNotFoundError]

(***************************************************************************)
(* Specifications.                                                         *)
(***************************************************************************)
\* local registrations and disposals only
NextLocal ==
    \/ \E i \in Instances : RegisterAuthenticationProvider(i)
    \/ \E h \in 1..MaxHandles : Dispose(h)
    \/ \E i \in Instances, e \in SessionEvents : ProviderEmits(i, e)

SpecLocal == Init /\ [][NextLocal]_vars

\* the registry with remote broadcasts
NextRegistry ==
    \/ \E i \in Instances : RegisterAuthenticationProvider(i)
    \/ \E h \in 1..MaxHandles : Dispose(h)
    \/ \E added \in Deltas, removed \in RemovedDeltas : OnDidChangeAuthenticationProviders(added, removed)
    \/ \E i \in Instances, e \in SessionEvents : ProviderEmits(i, e)

SpecRegistry == Init /\ [][NextRegistry]_vars

\* the session broker: getSession and the entry points that add and drop
\* sessions, with providers coming and going. Each provider object is
\* registered at most once; the Remote Proxy logs out of sessions that were
\* issued.
NeverRegistered(i) == \A k \in 1..Len(handles) : handles[k].provider # i

BrokerProviderIds == {ProvId(i) : i \in BrokerInstances}

Next ==
    \/ \E i \in BrokerInstances : NeverRegistered(i) /\ RegisterAuthenticationProvider(i)
    \/ \E h \in 1..MaxHandles : Dispose(h)
    \/ \E c \in CallIds, ext \in Extensions, providerId \in BrokerProviderIds,
          scopes \in ScopeInputs, options \in GetSessionOptions :
          GetSession(c, ext, providerId, scopes, options)
    \/ \E c \in CallIds : GetSessionsResolved(c)
    \/ \E c \in CallIds, allowed \in BOOLEAN : GetSessionsPromptReply(c, allowed)
    \/ \E c \in CallIds, selectedId \in SessionIds : SelectSessionReply(c, selectedId)
    \/ \E c \in CallIds, isAllowed \in BOOLEAN : LoginPromptReply(c, isAllowed)
    \/ \E c \in CallIds : LoginResolved(c)
    \/ \E c \in CallIds : SetTrustedReply(c)
    \/ \E c \in CallIds : RequestNewSessionReply(c)
    \/ \E providerId \in BrokerProviderIds, scopes \in ScopeInputs :
          Dollar_login(providerId, scopes)
    \/ \E providerId \in BrokerProviderIds, sessionId \in 1..(nextSessionId - 1) :
          Dollar_logout(providerId, sessionId)
    \/ \E providerId \in BrokerProviderIds : Dollar_getSessions(providerId)

Spec == Init /\ [][Next]_vars

\* logout and the entry points the Remote Proxy calls, with providers coming
\* and going
NextEntryPoints ==
    \/ \E i \in Instances : RegisterAuthenticationProvider(i)
    \/ \E h \in 1..MaxHandles : Dispose(h)
    \/ \E providerId \in ProviderIds, sessionId \in SessionIds : Logout(providerId, sessionId)
    \/ \E providerId \in ProviderIds, scopes \in ScopeInputs :
          Dollar_login(providerId, scopes)
    \/ \E providerId \in ProviderIds, sessionId \in SessionIds :
          Dollar_logout(providerId, sessionId)
    \/ \E providerId \in ProviderIds : Dollar_getSessions(providerId)

SpecEntryPoints == Init /\ [][NextEntryPoints]_vars

(***************************************************************************)
(* Claims about the registry.                                              *)
(***************************************************************************)
RegisterStep(i) == ret'.op = "registerAuthenticationProvider" /\ ret'.inst = i

\* C1: registering a provider whose id is currently registered fails with
\* DuplicateProviderError and changes nothing (map, id list, info list,
\* handles, listeners; no proxy call is issued); a registration of an id
\* that is not registered succeeds and maps the id to that provider; and a
\* registered id leaves the map, or changes its provider, only by a disposal.
\* So of two register calls for one id with no disposal between them exactly
\* one succeeds, and the first provider stays the one the map answers with.
C1_DuplicateRejected ==
    [][ /\ \A i \in Instances :
             RegisterStep(i) =>
                IF authenticationProviders[ProvId(i)] # None
                THEN /\ ret'.res = DuplicateProviderError
                     /\ UNCHANGED <<authenticationProviders, providerIds, providers,
                                    handles, listeners>>
                     /\ sent' = <<>>
                ELSE /\ ret'.res = "ok"
                     /\ authenticationProviders'[ProvId(i)] = i
        /\ \A id \in ProviderIds :
             (authenticationProviders[id] # None
                /\ authenticationProviders'[id] # authenticationProviders[id])
             => ret'.op = "dispose"
      ]_vars

\* C1 witness: provider object "b" was rejected while "a", registered first
\* under the same id, is still the one in the map.
C1_Witness ==
    /\ ret.op = "registerAuthenticationProvider"
    /\ ret.inst = "b"
    /\ ret.res = DuplicateProviderError
    /\ authenticationProviders["p1"] = "a"

MapIds == {id \in ProviderIds : authenticationProviders[id] # None}

NoDuplicates(s) == \A j, k \in 1..Len(s) : j # k => s[j] # s[k]

\* C2: with local registrations and disposals only, the ids in the provider
\* map, in the id list and in the info list are the same set, and no id
\* occurs twice in either list.
C2_LockStep ==
    /\ MapIds = Range(providerIds)
    /\ MapIds = IdsOf(providers)
    /\ NoDuplicates(providerIds)
    /\ NoDuplicates([k \in 1..Len(providers) |-> providers[k].id])

\* C3: in every reachable state the ids in the cached providerIds list are
\* the ids in the providers list.
C3_CachedIdsMatchInfos == Range(providerIds) = IdsOf(providers)

\* C4: the second and every later invocation of a handle changes neither the
\* map, the id list nor the info list, unsubscribes nothing and issues no
\* proxy call, whatever was registered in between.
C4_DisposeIdempotent ==
    [][ \A h \in 1..Len(handles) :
          (ret'.op = "dispose" /\ ret'.h = h /\ ~handles[h].disposable) =>
             /\ UNCHANGED <<authenticationProviders, providerIds, providers, listeners>>
             /\ sent' = <<>>
      ]_vars

\* C4 witness: handle 1 was invoked again after its id had been registered
\* anew (handle 2), and the newer registration is still there.
C4_Witness ==
    /\ ret.op = "dispose"
    /\ ret.h = 1
    /\ sent = <<>>
    /\ Len(handles) >= 2
    /\ ~handles[1].disposable
    /\ handles[2].disposable
    /\ ProvId(handles[2].provider) = ProvId(handles[1].provider)
    /\ authenticationProviders[ProvId(handles[1].provider)] = handles[2].provider
    /\ ProvId(handles[1].provider) \in Range(providerIds)
    /\ ProvId(handles[1].provider) \in IdsOf(providers)

\* C5: a broadcast that adds a ProviderInformation whose id is already in the
\* info list leaves exactly one entry for that id, and a broadcast that only
\* removes ids that are not present leaves the info list unchanged.
C5_BroadcastIdempotentById ==
    [][ \A added \in Deltas, removed \in RemovedDeltas :
          OnDidChangeAuthenticationProviders(added, removed) =>
             /\ removed = <<>> =>
                   \A k \in 1..Len(added) :
                      added[k].id \in IdsOf(providers) =>
                         CountId(providers', added[k].id) = 1
             /\ (added = <<>> /\ IdsOf(removed) \cap IdsOf(providers) = {}) =>
                   providers' = providers
      ]_vars

(***************************************************************************)
(* Claims about getSession.                                                *)
(***************************************************************************)
\* the positions of the trace of a call that hold an event named name
Events(call, name) == {k \in 1..Len(call.trace) : call.trace[k].call = name}

\* provider.getSessions() has resolved in this call
Resolved(call) == call.provider # None /\ call.pc \notin {"idle", "getSessions"}

\* this step is the one in which provider.getSessions() resolves in call c
Resolves(c) == calls[c].pc = "getSessions" /\ calls'[c].pc # "getSessions"

\* the sessions of the call's provider that match the requested scopes
Matching(call) ==
    SelectSeq(sessions[call.provider],
              LAMBDA x : Join(JsSort(x.scopes)) = Join(JsSort(call.scopes)))

ConsentGiven(call) ==
    \E k \in 1..Len(call.trace) :
       \/ call.trace[k].call = "reply $getSessionsPrompt" /\ call.trace[k].flag
       \/ call.trace[k].call = "reply $selectSession"
       \/ call.trace[k].call = "reply $loginPrompt" /\ call.trace[k].flag

LoginAfterConsent(call) ==
    \A k \in Events(call, "provider.login") :
       \E j \in 1..(k - 1) :
          call.trace[j].call = "reply $loginPrompt" /\ call.trace[j].flag

\* C6: a call that returns a session has had, in that call, a
\* $getSessionsPrompt reply of true, a $selectSession reply or a $loginPrompt
\* reply of true; provider.login is invoked only after $loginPrompt replied
\* true in that call, and a step of getSession adds a session to a provider
\* only in a call that has that reply.
C6_ConsentBeforeSession ==
    [][ /\ \A c \in CallIds :
             /\ calls'[c].result.kind = "session" => ConsentGiven(calls'[c])
             /\ LoginAfterConsent(calls'[c])
        /\ \A c \in CallIds :
             (ret'.op = "getSession" /\ ret'.h = c /\ sessions' # sessions) =>
                /\ calls[c].pc = "$loginPrompt"
                /\ Events(calls'[c], "reply $loginPrompt") # {}
                /\ \A k \in Events(calls'[c], "reply $loginPrompt") : calls'[c].trace[k].flag
      ]_vars

\* C6 witness: a call has returned the session provider.login created.
C6_Witness ==
    \E c \in CallIds :
       /\ calls[c].pc = "done"
       /\ calls[c].result.kind = "session"
       /\ Events(calls[c], "provider.login") # {}
       /\ calls[c].result.session \in Range(sessions[calls[c].provider])

\* C7: when provider.getSessions() resolves in a call with createIfNone false
\* and the provider holds no session matching the scopes, the call issues
\* $requestNewSession and nothing else; such a call issues it exactly once,
\* issues no prompt, no $selectSession and no provider.login, and ends by
\* returning undefined, not by throwing.
C7_NoSessionNoCreate ==
    [][ \A c \in CallIds :
          /\ (Resolves(c) /\ ~calls[c].options.createIfNone /\ Matching(calls[c]) = <<>>) =>
                /\ calls'[c].pc = "$requestNewSession"
                /\ Len(sent') = 1
                /\ sent'[1].call = "$requestNewSession"
                /\ sent'[1].providerId = calls[c].providerId
                /\ UNCHANGED <<sessions, nextSessionId>>
          /\ (Resolved(calls'[c]) /\ ~calls'[c].options.createIfNone
                /\ calls'[c].sessions = <<>>) =>
                /\ calls'[c].pc \in {"$requestNewSession", "done"}
                /\ Cardinality(Events(calls'[c], "$requestNewSession")) = 1
                /\ Events(calls'[c], "$getSessionsPrompt") = {}
                /\ Events(calls'[c], "$selectSession") = {}
                /\ Events(calls'[c], "$loginPrompt") = {}
                /\ Events(calls'[c], "provider.login") = {}
                /\ calls'[c].pc = "done" => calls'[c].result = ReturnedUndefined
      ]_vars

\* C7 witness: a call on a registered provider has returned undefined after
\* $requestNewSession.
C7_Witness ==
    \E c \in CallIds :
       /\ calls[c].pc = "done"
       /\ calls[c].provider # None
       /\ ~calls[c].options.createIfNone
       /\ calls[c].sessions = <<>>
       /\ calls[c].result = ReturnedUndefined
       /\ Events(calls[c], "$requestNewSession") # {}

Declined(call) ==
    \E k \in Events(call, "reply $loginPrompt") : ~call.trace[k].flag

\* C8: the step in which $loginPrompt is declined ends the call with
\* ConsentDeniedError, leaves every provider's sessions as they are and issues
\* no proxy call; a call whose $loginPrompt was declined has invoked neither
\* provider.login nor $setTrustedExtensionAndAccountPreference.
C8_LoginDeclined ==
    [][ \A c \in CallIds :
          /\ (ret'.op = "getSession" /\ ret'.h = c /\ ~Declined(calls[c])
                /\ Declined(calls'[c])) =>
                /\ calls[c].pc = "$loginPrompt"
                /\ calls[c].options.createIfNone
                /\ calls[c].sessions = <<>>
                /\ UNCHANGED <<sessions, nextSessionId>>
                /\ sent' = <<>>
          /\ Declined(calls'[c]) =>
                /\ calls'[c].pc = "done"
                /\ calls'[c].result = Thrown(ConsentDeniedError)
                /\ Events(calls'[c], "provider.login") = {}
                /\ Events(calls'[c], "$setTrustedExtensionAndAccountPreference") = {}
      ]_vars

\* C8 witness: a createIfNone call with no matching session has failed with
\* ConsentDeniedError.
C8_Witness ==
    \E c \in CallIds :
       /\ calls[c].pc = "done"
       /\ calls[c].options.createIfNone
       /\ calls[c].sessions = <<>>
       /\ Declined(calls[c])
       /\ calls[c].result = Thrown(ConsentDeniedError)

SingleWithMatch(call) ==
    Resolved(call) /\ ~SupportsMultipleAccounts(call.provider) /\ call.sessions # <<>>

\* C9: when provider.getSessions() resolves for a single-account provider
\* that holds a matching session, the call issues $getSessionsPrompt for the
\* account of the first matching session; such a call issues it exactly once
\* and never $selectSession, $loginPrompt or provider.login, returns that
\* first session if the reply is true and fails with ConsentDeniedError
\* otherwise, and none of its steps changes a provider's sessions.
C9_SingleAccount ==
    [][ \A c \in CallIds :
          /\ (Resolves(c) /\ ~SupportsMultipleAccounts(calls[c].provider)
                /\ Matching(calls[c]) # <<>>) =>
                /\ calls'[c].pc = "$getSessionsPrompt"
                /\ calls'[c].sessions[1] = Matching(calls[c])[1]
                /\ Len(sent') = 1
                /\ sent'[1].call = "$getSessionsPrompt"
                /\ sent'[1].account = Matching(calls[c])[1].account
          /\ SingleWithMatch(calls'[c]) =>
                /\ calls'[c].pc \in {"$getSessionsPrompt", "done"}
                /\ Cardinality(Events(calls'[c], "$getSessionsPrompt")) = 1
                /\ \A k \in Events(calls'[c], "$getSessionsPrompt") :
                      calls'[c].trace[k].account = calls'[c].sessions[1].account
                /\ Events(calls'[c], "$selectSession") = {}
                /\ Events(calls'[c], "$loginPrompt") = {}
                /\ Events(calls'[c], "provider.login") = {}
                /\ calls'[c].pc = "done" =>
                      /\ Cardinality(Events(calls'[c], "reply $getSessionsPrompt")) = 1
                      /\ \A k \in Events(calls'[c], "reply $getSessionsPrompt") :
                            calls'[c].result =
                               IF calls'[c].trace[k].flag
                               THEN Returned(calls'[c].sessions[1])
                               ELSE Thrown(ConsentDeniedError)
                /\ (ret'.op = "getSession" /\ ret'.h = c) =>
                      UNCHANGED <<sessions, nextSessionId>>
      ]_vars

\* C9 witness: a single-account provider held two matching sessions of two
\* accounts, and the call returned the first.
C9_Witness ==
    \E c \in CallIds :
       /\ calls[c].pc = "done"
       /\ ~SupportsMultipleAccounts(calls[c].provider)
       /\ Len(calls[c].sessions) = 2
       /\ calls[c].sessions[1].account # calls[c].sessions[2].account
       /\ calls[c].result = Returned(calls[c].sessions[1])

MultiWithMatch(call) ==
    Resolved(call) /\ SupportsMultipleAccounts(call.provider) /\ call.sessions # <<>>

\* C10: when provider.getSessions() resolves for a multi-account provider
\* that holds a matching session, the call issues $selectSession with exactly
\* the matching sessions and forceNewPrompt = clearSessionPreference; such a
\* call issues it exactly once and never $getSessionsPrompt, and returns the
\* candidate with the selected id, or undefined if no candidate has that id.
C10_MultiAccount ==
    [][ \A c \in CallIds :
          /\ (Resolves(c) /\ SupportsMultipleAccounts(calls[c].provider)
                /\ Matching(calls[c]) # <<>>) =>
                /\ calls'[c].pc = "$selectSession"
                /\ calls'[c].sessions = Matching(calls[c])
                /\ Len(sent') = 1
                /\ sent'[1].call = "$selectSession"
                /\ sent'[1].sessions = Matching(calls[c])
                /\ sent'[1].flag = calls[c].options.clearSessionPreference
          /\ MultiWithMatch(calls'[c]) =>
                /\ calls'[c].pc \in {"$selectSession", "done"}
                /\ Cardinality(Events(calls'[c], "$selectSession")) = 1
                /\ \A k \in Events(calls'[c], "$selectSession") :
                      /\ calls'[c].trace[k].sessions = calls'[c].sessions
                      /\ calls'[c].trace[k].flag = calls'[c].options.clearSessionPreference
                /\ Events(calls'[c], "$getSessionsPrompt") = {}
                /\ calls'[c].pc = "done" =>
                      /\ Cardinality(Events(calls'[c], "reply $selectSession")) = 1
                      /\ \A k \in Events(calls'[c], "reply $selectSession") :
                            LET id == calls'[c].trace[k].sessionId IN
                            IF \E x \in Range(calls'[c].sessions) : x.id = id
                            THEN /\ calls'[c].result.kind = "session"
                                 /\ calls'[c].result.session \in Range(calls'[c].sessions)
                                 /\ calls'[c].result.session.id = id
                            ELSE calls'[c].result = ReturnedUndefined
      ]_vars

\* C10 witness: with clearSessionPreference, a multi-account provider held
\* two matching sessions and the call returned the second, the selected one.
C10_Witness ==
    \E c \in CallIds :
       /\ calls[c].pc = "done"
       /\ SupportsMultipleAccounts(calls[c].provider)
       /\ calls[c].options.clearSessionPreference
       /\ Len(calls[c].sessions) = 2
       /\ calls[c].result = Returned(calls[c].sessions[2])

(***************************************************************************)
(* Scope matching (lines 76-77).                                           *)
(***************************************************************************)
\* getSession without createIfNone against the sessions $login created, for
\* every pair of scopes sequences
NextMatching ==
    \/ \E i \in BrokerInstances : NeverRegistered(i) /\ RegisterAuthenticationProvider(i)
    \/ \E providerId \in BrokerProviderIds, scopes \in MatchScopes :
          Dollar_login(providerId, scopes)
    \/ \E c \in CallIds, ext \in Extensions, providerId \in BrokerProviderIds,
          scopes \in MatchScopes :
          GetSession(c, ext, providerId, scopes,
                     [createIfNone |-> FALSE, clearSessionPreference |-> FALSE])
    \/ \E c \in CallIds : GetSessionsResolved(c)
    \/ \E c \in CallIds, allowed \in BOOLEAN : GetSessionsPromptReply(c, allowed)
    \/ \E c \in CallIds, selectedId \in SessionIds : SelectSessionReply(c, selectedId)
    \/ \E c \in CallIds : RequestNewSessionReply(c)

SpecMatching == Init /\ [][NextMatching]_vars

Occurrences(s, e) == Cardinality({k \in 1..Len(s) : s[k] = e})

\* s and t hold the same strings, each the same number of times
IsPermutation(s, t) ==
    \A e \in Range(s) \cup Range(t) : Occurrences(s, e) = Occurrences(t, e)

\* C11: when provider.getSessions() resolves, a session of the provider is
\* among the candidates if its scopes are a permutation of the requested
\* scopes, and is not if some string occurs in its scopes a different number
\* of times than in the request (a string in another case is another string).
C11_ExactMatching ==
    [][ \A c \in CallIds :
          Resolves(c) =>
             \A x \in Range(sessions[calls[c].provider]) :
                (x \in Range(calls'[c].sessions)) <=> IsPermutation(x.scopes, calls[c].scopes)
      ]_vars

(***************************************************************************)
(* Claims about the lookup of the provider.                                *)
(***************************************************************************)
\* the outcome of an entry point that found no provider: the error, no proxy
\* call, no change to a provider's sessions or to the registry
NotFoundOutcome ==
    /\ sent' = <<>>
    /\ UNCHANGED <<sessions, nextSessionId>>
    /\ UNCHANGED <<authenticationProviders, providerIds, providers>>

\* C12: getSession, $login, $logout and $getSessions for a provider id that
\* is not in the provider map fail with ProviderNotFoundError, issue no proxy
\* call, invoke no provider operation (no provider's sessions change, the
\* call records no provider call) and leave the map, the id list and the
\* info list unchanged.
C12_ProviderNotFound ==
    [][ /\ \A c \in CallIds :
             (ret'.op = "getSession" /\ ret'.h = c /\ calls[c].pc \in {"idle", "done"}
                /\ authenticationProviders[calls'[c].providerId] = None) =>
                /\ calls'[c].pc = "done"
                /\ calls'[c].result = Thrown(ProviderNotFoundError)
                /\ calls'[c].trace = <<>>
                /\ NotFoundOutcome
        /\ ret'.op = "$login" =>
             \A providerId \in ProviderIds, scopes \in ScopeInputs :
                (authenticationProviders[providerId] = None
                   /\ Dollar_login(providerId, scopes)) =>
                   /\ ret'.res = ProviderNotFoundError
                   /\ ret'.inst = None
                   /\ NotFoundOutcome
        /\ ret'.op = "$logout" =>
             \A providerId \in ProviderIds, sessionId \in SessionIds :
                (authenticationProviders[providerId] = None
                   /\ Dollar_logout(providerId, sessionId)) =>
                   /\ ret'.res = ProviderNotFoundError
                   /\ ret'.inst = None
                   /\ NotFoundOutcome
        /\ ret'.op = "$getSessions" =>
             \A providerId \in ProviderIds :
                (authenticationProviders[providerId] = None
                   /\ Dollar_getSessions(providerId)) =>
                   /\ ret'.res = ProviderNotFoundError
                   /\ ret'.inst = None
                   /\ NotFoundOutcome
      ]_vars

\* C12 witness: $logout for a session a provider issued failed with
\* ProviderNotFoundError after the provider's handle was disposed, and the
\* session is still there.
C12_Witness ==
    /\ ret.op = "$logout"
    /\ ret.res = ProviderNotFoundError
    /\ \E h \in 1..Len(handles) :
          /\ ~handles[h].disposable
          /\ sessions[handles[h].provider] # <<>>

\* C13: logout(providerId, sessionId) never fails with ProviderNotFoundError
\* and changes nothing in the registry. If the id is in the provider map it
\* calls logout(sessionId) on that provider (only that provider's sessions
\* change: the one with that id is dropped) and issues no proxy call;
\* otherwise it issues exactly one proxy call, $logout(providerId, sessionId),
\* and no provider's sessions change.
C13_LogoutRoutes ==
    [][ \A providerId \in ProviderIds, sessionId \in SessionIds :
          (ret'.op = "logout" /\ Logout(providerId, sessionId)) =>
             LET provider == authenticationProviders[providerId] IN
             /\ ret'.res # ProviderNotFoundError
             /\ UNCHANGED <<authenticationProviders, providerIds, providers>>
             /\ IF provider # None
                THEN /\ sent' = <<>>
                     /\ ret'.inst = provider
                     /\ sessions' = [sessions EXCEPT ![provider] =
                                       SelectSeq(@, LAMBDA x : x.id # sessionId)]
                ELSE /\ sent' = << [Msg0 EXCEPT !.call = "$logout",
                                                !.providerId = providerId,
                                                !.sessionId = sessionId] >>
                     /\ ret'.inst = None
                     /\ sessions' = sessions
      ]_vars

\* C13 witness: after a provider's handle was disposed, logout for a session
\* that provider holds was forwarded to the Remote Proxy, and the provider
\* still holds the session.
C13_Witness ==
    /\ ret.op = "logout"
    /\ ret.res = "forwarded"
    /\ Len(sent) = 1
    /\ \E h \in 1..Len(handles) :
          /\ ~handles[h].disposable
          /\ ProvId(handles[h].provider) = sent[1].providerId
          /\ \E x \in Range(sessions[handles[h].provider]) : x.id = sent[1].sessionId

(***************************************************************************)
(* Claims about the create path of getSession.                             *)
(***************************************************************************)
\* the names of the events of a call, in order
TraceNames(call) == [k \in 1..Len(call.trace) |-> call.trace[k].call]

CreatePathNames ==
    << "provider.getSessions", "$loginPrompt", "reply $loginPrompt", "provider.login",
       "$setTrustedExtensionAndAccountPreference",
       "reply $setTrustedExtensionAndAccountPreference" >>

\* no matching session, createIfNone, and $loginPrompt replied true
OnCreatePath(call) ==
    /\ Resolved(call)
    /\ call.options.createIfNone
    /\ call.sessions = <<>>
    /\ \E k \in Events(call, "reply $loginPrompt") : call.trace[k].flag

\* C14: on the create path the events of the call are, in this order and
\* each once, $loginPrompt and its reply, provider.login with the call's
\* scopes on the call's provider, $setTrustedExtensionAndAccountPreference
\* with the account and id of the session login returned, and its reply;
\* the session login returned is the one the provider added in that step,
\* and the call ends only after all of them, returning that session.
C14_CreatePathOrder ==
    [][ \A c \in CallIds :
          /\ OnCreatePath(calls'[c]) =>
                LET call == calls'[c] IN
                /\ Len(call.trace) \in 4..Len(CreatePathNames)
                /\ TraceNames(call) = SubSeq(CreatePathNames, 1, Len(call.trace))
                /\ call.trace[4].provider = call.provider
                /\ call.trace[4].scopes = call.scopes
                /\ call.session.scopes = call.scopes
                /\ Len(call.trace) >= 5 =>
                      /\ call.trace[5].providerId = call.providerId
                      /\ call.trace[5].account = call.session.account
                      /\ call.trace[5].sessionId = call.session.id
                /\ call.pc = "done" <=> Len(call.trace) = Len(CreatePathNames)
                /\ call.pc = "done" => call.result = Returned(call.session)
          /\ (OnCreatePath(calls'[c]) /\ ~OnCreatePath(calls[c])) =>
                /\ calls[c].pc = "$loginPrompt"
                /\ sessions' = [sessions EXCEPT ![calls[c].provider] =
                                  Append(@, calls'[c].session)]
          /\ (OnCreatePath(calls[c]) /\ calls[c].pc # "done") =>
                /\ calls'[c].session = calls[c].session
                /\ (ret'.op = "getSession" /\ ret'.h = c) => sessions' = sessions
      ]_vars

\* C14 witness: a call has gone through the whole create path and returned
\* the session whose id it sent with the preference.
C14_Witness ==
    \E c \in CallIds :
       /\ OnCreatePath(calls[c])
       /\ calls[c].pc = "done"
       /\ Len(calls[c].trace) = Len(CreatePathNames)
       /\ calls[c].result.kind = "session"
       /\ calls[c].trace[5].sessionId = calls[c].result.session.id

(***************************************************************************)
(* Claims about the relay of session-change events.                        *)
(***************************************************************************)
\* provider object i holds a registration: a handle for it was handed out and
\* has not been disposed
HoldsRegistration(i) ==
    \E h \in 1..Len(handles) : handles[h].provider = i /\ handles[h].disposable

\* C15: when a provider object emits a session-change event, the proxy calls
\* of that step are exactly one $updateSessions with the provider's id and
\* that event if the provider holds a registration, and none if it does not
\* (never registered, rejected as a duplicate, or its handle disposed). The
\* relay is part of the emission, so relays come in emission order.
C15_RelayWhileRegistered ==
    [][ \A i \in Instances, e \in SessionEvents :
          (ret'.op = "emit" /\ ProviderEmits(i, e)) =>
             sent' = IF HoldsRegistration(i)
                     THEN << [Msg0 EXCEPT !.call = "$updateSessions",
                                          !.providerId = ProvId(i), !.event = e] >>
                     ELSE <<>>
      ]_vars

\* C15 witness: a provider object registered, disposed and registered again
\* emitted an event, and it was relayed once.
C15_Witness ==
    /\ ret.op = "emit"
    /\ Len(sent) = 1
    /\ sent[1].providerId = ProvId(ret.inst)
    /\ \E h, k \in 1..Len(handles) :
          /\ h < k
          /\ handles[h].provider = ret.inst
          /\ handles[k].provider = ret.inst
          /\ ~handles[h].disposable
          /\ handles[k].disposable

(***************************************************************************)
(* Claims about the notifications of getSession.                           *)
(***************************************************************************)
\* C16: getSession does not wait for a reply to $requestNewSession or to
\* $setTrustedExtensionAndAccountPreference: a call that has issued
\* $requestNewSession has returned undefined, and a call that has issued
\* $setTrustedExtensionAndAccountPreference has returned the new session,
\* whether or not a reply has arrived.
C16_FireAndForget ==
    \A c \in CallIds :
       /\ Events(calls[c], "$requestNewSession") # {} =>
             /\ calls[c].pc = "done"
             /\ calls[c].result = ReturnedUndefined
       /\ Events(calls[c], "$setTrustedExtensionAndAccountPreference") # {} =>
             /\ calls[c].pc = "done"
             /\ calls[c].result = Returned(calls[c].session)

(***************************************************************************)
(* Claims about the frame of a broadcast.                                  *)
(***************************************************************************)
\* C17: a broadcast keeps every entry of the info list whose id is not the id
\* of an entry of removed, in the same relative order.
C17_RemovesOnlyNamed ==
    [][ \A added \in Deltas, removed \in RemovedDeltas :
          OnDidChangeAuthenticationProviders(added, removed) =>
             LET kept == SelectSeq(providers, LAMBDA x : x.id \notin IdsOf(removed))
             IN  SelectSeq(providers', LAMBDA x : x \in Range(kept)) = kept
      ]_vars

(***************************************************************************)
(* Overlapping getSession calls.                                           *)
(***************************************************************************)
\* two getSession calls in flight, with providers registered and no logout
NextConcurrent ==
    \/ \E i \in BrokerInstances : NeverRegistered(i) /\ RegisterAuthenticationProvider(i)
    \/ \E c \in ConcurrentCallIds, ext \in Extensions, providerId \in BrokerProviderIds,
          scopes \in ScopeInputs, createIfNone \in BOOLEAN :
          GetSession(c, ext, providerId, scopes,
                     [createIfNone |-> createIfNone, clearSessionPreference |-> FALSE])
    \/ \E c \in ConcurrentCallIds : GetSessionsResolved(c)
    \/ \E c \in ConcurrentCallIds, allowed \in BOOLEAN : GetSessionsPromptReply(c, allowed)
    \/ \E c \in ConcurrentCallIds, selectedId \in SessionIds : SelectSessionReply(c, selectedId)
    \/ \E c \in ConcurrentCallIds, isAllowed \in BOOLEAN : LoginPromptReply(c, isAllowed)
    \/ \E c \in ConcurrentCallIds : LoginResolved(c)
    \/ \E c \in ConcurrentCallIds : SetTrustedReply(c)
    \/ \E c \in ConcurrentCallIds : RequestNewSessionReply(c)

SpecConcurrent == Init /\ [][NextConcurrent]_vars

\* C18: whatever the other calls are doing, a call in which
\* provider.getSessions() resolves with createIfNone and no matching session
\* issues $loginPrompt, and a call whose $loginPrompt is accepted invokes
\* provider.login, which adds one more session to its provider. So two
\* overlapping identical calls both prompt and both log in.
C18_NoDeduplication ==
    [][ \A c \in ConcurrentCallIds :
          /\ (Resolves(c) /\ calls[c].options.createIfNone /\ Matching(calls[c]) = <<>>) =>
                /\ calls'[c].pc = "$loginPrompt"
                /\ Len(sent') = 1
                /\ sent'[1].call = "$loginPrompt"
          /\ (calls[c].pc = "$loginPrompt" /\ calls'[c].pc # "$loginPrompt"
                /\ \E k \in Events(calls'[c], "reply $loginPrompt") : calls'[c].trace[k].flag) =>
                /\ calls'[c].pc = "provider.login"
                /\ Events(calls'[c], "provider.login") # {}
                /\ Len(sessions'[calls[c].provider]) = Len(sessions[calls[c].provider]) + 1
      ]_vars

\* C18 witness: two calls for the same provider, scopes and extension are
\* both past an accepted $loginPrompt and inside provider.login, each with a
\* session of its own.
C18_Witness ==
    /\ calls[1].pc = "provider.login"
    /\ calls[2].pc = "provider.login"
    /\ calls[1].provider = calls[2].provider
    /\ calls[1].scopes = calls[2].scopes
    /\ calls[1].extensionId = calls[2].extensionId
    /\ Events(calls[1], "$loginPrompt") # {}
    /\ Events(calls[2], "$loginPrompt") # {}
    /\ calls[1].session # calls[2].session
    /\ {calls[1].session, calls[2].session} \subseteq Range(sessions[calls[1].provider])

(***************************************************************************)
(* Claims about a disposal during getSession.                              *)
(***************************************************************************)
InFlight(call) == call.pc \notin {"idle", "done"}

\* the provider calls a step adds to the events of call c
NewProviderCalls(c) ==
    {calls'[c].trace[k].provider : k \in (Len(calls[c].trace) + 1)..Len(calls'[c].trace)}
       \ {None}

\* C19: a call that found its provider keeps that provider to its end and
\* never fails with ProviderNotFoundError, whatever happens to the registry
\* meanwhile; each of its steps calls no provider but the captured one,
\* changes no other provider's sessions and names the id it was called with
\* in its proxy calls; an accepted $loginPrompt leads to provider.login on the
\* captured provider also when the registry no longer maps the id to it.
C19_ProviderCaptured ==
    [][ \A c \in CallIds :
          InFlight(calls[c]) =>
             /\ calls[c].provider # None
             /\ calls'[c].provider = calls[c].provider
             /\ calls'[c].providerId = calls[c].providerId
             /\ calls'[c].result.error # ProviderNotFoundError
             /\ (ret'.op = "getSession" /\ ret'.h = c) =>
                   /\ NewProviderCalls(c) \subseteq {calls[c].provider}
                   /\ \A i \in Instances \ {calls[c].provider} : sessions'[i] = sessions[i]
                   /\ \A k \in 1..Len(sent') :
                         sent'[k].providerId \in {"", calls[c].providerId}
                   /\ (calls[c].pc = "$loginPrompt"
                         /\ calls'[c].trace[Len(calls'[c].trace)].call # "reply $loginPrompt") =>
                         /\ calls'[c].pc = "provider.login"
                         /\ Len(sessions'[calls[c].provider]) =
                               Len(sessions[calls[c].provider]) + 1
      ]_vars

\* C19 witness: the step just taken is the one in which the call invoked
\* provider.login, and the registry has no provider for the call's id: the
\* handle was disposed while the call was suspended.
C19_Witness ==
    \E c \in CallIds :
       /\ ret.op = "getSession"
       /\ ret.h = c
       /\ calls[c].pc = "provider.login"
       /\ authenticationProviders[calls[c].providerId] = None
       /\ calls[c].providerId \notin IdsOf(providers)
       /\ calls[c].session \in Range(sessions[calls[c].provider])

(***************************************************************************)
(* Claims about the order of the scopes.                                   *)
(***************************************************************************)
\* s is in code-unit order
IsSorted(s) == \A j, k \in 1..Len(s) : j < k => ~StrLess(s[k], s[j])

ScopesCalls == {"$selectSession", "provider.login", "$requestNewSession"}

\* C20: once getSession has found its provider the caller's scopes sequence
\* is the requested scopes in sorted order; $selectSession, provider.login and
\* $requestNewSession are given that sorted sequence; and no step of
\* getSession changes a session a provider already holds (the candidates are
\* sessions of the provider as it holds them).
C20_ScopesSortedInPlace ==
    [][ \A c \in CallIds :
          /\ (~InFlight(calls[c]) /\ InFlight(calls'[c])) =>
                \A ext \in Extensions, scopes \in ScopeInputs :
                   GetSession(c, ext, calls'[c].providerId, scopes, calls'[c].options) =>
                      /\ IsSorted(calls'[c].scopes)
                      /\ IsPermutation(calls'[c].scopes, scopes)
                      /\ Len(calls'[c].scopes) = Len(scopes)
          /\ InFlight(calls[c]) => calls'[c].scopes = calls[c].scopes
          /\ (ret'.op = "getSession" /\ ret'.h = c /\ InFlight(calls[c])) =>
                /\ \A k \in 1..Len(calls'[c].trace) :
                      calls'[c].trace[k].call \in ScopesCalls =>
                         /\ calls'[c].trace[k].scopes = calls[c].scopes
                         /\ IsSorted(calls'[c].trace[k].scopes)
                /\ \A k \in 1..Len(sent') :
                      sent'[k].call \in ScopesCalls => sent'[k].scopes = calls[c].scopes
          /\ (ret'.op = "getSession" /\ ret'.h = c) =>
                /\ \A i \in Instances :
                      SubSeq(sessions'[i], 1, Len(sessions[i])) = sessions[i]
                /\ Resolves(c) =>
                      Range(calls'[c].sessions) \subseteq Range(sessions[calls[c].provider])
      ]_vars

\* C20 witness: a request for ["b", "a"] reached $selectSession with scopes
\* ["a", "b"], and the candidate it passes still has its scopes as the
\* provider holds them, ["b", "a"].
C20_Witness ==
    \E c \in CallIds :
       /\ calls[c].pc = "$selectSession"
       /\ Len(sent) = 1
       /\ sent[1].call = "$selectSession"
       /\ sent[1].scopes = <<Str_a, Str_b>>
       /\ calls[c].scopes = <<Str_a, Str_b>>
       /\ \E x \in Range(sent[1].sessions) :
             x.scopes = <<Str_b, Str_a>> /\ x \in Range(sessions[calls[c].provider])

====
